---- MODULE Spec2Model ----
(***************************************************************************)
(* A model of the TTS worker (src/handler.py) and of the voice profile     *)
(* registry (src/voice_manager.py).                                        *)
(*                                                                         *)
(* handler(job) is modelled statement group by statement group: pc is the  *)
(* position of the one job being processed, the outcome of every external  *)
(* call (mkdtemp, requests, the two engines, torchaudio, ffmpeg, boto3,    *)
(* rmtree) is chosen by the environment.  The two engine handles are the   *)
(* module globals and live across jobs.                                    *)
(*                                                                         *)
(* Paths inside the staging directory are written by their base name.      *)
(***************************************************************************)
EXTENDS Naturals, Sequences, FiniteSets, TLC

VARIABLES
    pc,               \* position of the worker: "startup", "idle", a stage, "done"
    job,              \* job["input"] and job["id"] of the job being processed
    env,              \* the process environment read by upload_to_s3
    f5_model,         \* global f5_model
    tone_converter,   \* global tone_converter
    dirCreated,       \* tempfile.mkdtemp returned for this job
    dirExists,        \* the staging directory is on the filesystem
    files,            \* base name -> content, the files of the staging directory
    ref_audio_path,   \* handler local
    audio,            \* handler local: the synthesized samples
    final_audio_path, \* handler local
    output_file,      \* handler local
    uploaded,         \* objects this job put into the bucket
    retval,           \* the value of a return statement whose finally is still to run
    exc,              \* the exception in flight
    returned,         \* what handler returned to its caller: <<>> or <<payload>>
    log,              \* the external calls this job made, in order
    disk,             \* profiles.json of the shared storage directory
    mgr,              \* the VoiceManager instances
    op,               \* the last VoiceManager call and what it returned
    writer            \* profile id -> the instance whose mutation persisted its entry

hvars == <<pc, job, env, f5_model, tone_converter, dirCreated, dirExists, files,
           ref_audio_path, audio, final_audio_path, output_file, uploaded,
           retval, exc, returned, log>>
rvars == <<disk, mgr, op, writer>>
vars == <<hvars, rvars>>

-----------------------------------------------------------------------------
(* Python values *)

\* None
NONE == "<None>"

\* bool(x) of a string or None
Truthy(x) == x # NONE /\ x # ""

\* dict.get(key, default): a key that is absent is written NONE in the model
Get(v, default) == IF v = NONE THEN default ELSE v

\* str(e) of an exception raised by an external call
ExcText == "E"

\* d[name] = content
Put(d, name, content) ==
    [k \in DOMAIN d \cup {name} |-> IF k = name THEN content ELSE d[k]]

NoFiles == [k \in {} |-> [codec |-> "", audio |-> ""]]

-----------------------------------------------------------------------------
(* The jobs and the environments the model draws from *)

Jobs ==
    [id : {NONE, "j1"},
     text : {NONE, "", "Hi"},
     language : {NONE, "es"},
     voice_clone_url : {NONE, "", "https://v/x.wav"},
     voice_clone_text : {NONE, "", "transcript"},
     use_openvoice : BOOLEAN,
     output_format : {NONE, "wav"}]

Envs ==
    [RUNPOD_S3_ACCESS_KEY : {NONE, "", "AK"},
     RUNPOD_S3_SECRET_KEY : {NONE, "SK"}]

NoJob ==
    [id |-> NONE, text |-> NONE, language |-> NONE, voice_clone_url |-> NONE,
     voice_clone_text |-> NONE, use_openvoice |-> FALSE, output_format |-> NONE]

\* the locals handler binds at lines 261-275
job_id == Get(job.id, "unknown")
text == job.text
language == Get(job.language, "en")
voice_clone_url == job.voice_clone_url
voice_clone_text == job.voice_clone_text
use_openvoice == job.use_openvoice
output_format == Get(job.output_format, "mp3")

-----------------------------------------------------------------------------
(* What the environment can make an external call do *)

F5LoadOutcomes == {"ok", "fail"}
\* fail_ctor: the import or ToneColorConverter(...) raises;
\* fail_ckpt: load_ckpt raises, after tone_converter was assigned
OvLoadOutcomes == {"ok", "fail_ctor", "fail_ckpt"}
CallOutcomes == {"ok", "raise"}

-----------------------------------------------------------------------------
(* The two engines *)

\* initialize_f5_tts(): the value returned and the global afterwards
initialize_f5_tts(o, f5) ==
    IF o = "ok"
    THEN [ok |-> TRUE, f5 |-> "loaded"]
    ELSE [ok |-> FALSE, f5 |-> f5]

\* initialize_openvoice(): the value returned and the global afterwards
initialize_openvoice(o, tc) ==
    CASE o = "ok" -> [ok |-> TRUE, tc |-> "loaded"]
      [] o = "fail_ctor" -> [ok |-> FALSE, tc |-> tc]
      [] OTHER -> [ok |-> FALSE, tc |-> "constructed"]

\* a load on every call, loaded or not
NeedsF5LoadAlways(f5) == TRUE

\* line 158: if f5_model is None
NeedsF5Load(f5) == f5 = NONE

\* line 213: if tone_converter is None
NeedsOvLoad(tc) == tc = NONE

\* generate_f5_tts(text, ref_audio_path, ref_text, language): the tuple returned,
\* the global afterwards and the calls made
generate_f5_tts(ref_path, ref_text, f5, lo, io) ==
    LET needLoad == NeedsF5Load(f5)
        init == initialize_f5_tts(lo, f5)
        f5After == IF needLoad THEN init.f5 ELSE f5
        loadEv == IF needLoad THEN <<"f5_load:" \o lo>> ELSE <<>>
        mode == IF Truthy(ref_path) /\ Truthy(ref_text) THEN "clone" ELSE "default"
    IN  IF needLoad /\ ~init.ok
        THEN [ret |-> <<NONE, "F5-TTS model not available">>,
              f5 |-> f5After, events |-> loadEv]
        ELSE IF io = "ok"
        THEN [ret |-> <<"f5:" \o mode, "sr", NONE>>,
              f5 |-> f5After, events |-> loadEv \o <<"infer:" \o mode>>]
        ELSE [ret |-> <<NONE, NONE, "F5-TTS generation failed: " \o ExcText>>,
              f5 |-> f5After, events |-> loadEv \o <<"infer:" \o mode \o ":raise">>]

\* apply_openvoice_cloning(source_audio_path, reference_audio_path, output_path)
apply_openvoice_cloning(source, reference, output, tc, lo, co, fs) ==
    LET needLoad == NeedsOvLoad(tc)
        init == initialize_openvoice(lo, tc)
        tcAfter == IF needLoad THEN init.tc ELSE tc
        loadEv == IF needLoad THEN <<"ov_load:" \o lo>> ELSE <<>>
    IN  IF needLoad /\ ~init.ok
        THEN [ret |-> <<NONE, "OpenVoice model not available">>,
              tc |-> tcAfter, events |-> loadEv, files |-> fs]
        ELSE IF co = "ok" /\ source \in DOMAIN fs /\ reference \in DOMAIN fs
        THEN [ret |-> <<output, NONE>>,
              tc |-> tcAfter, events |-> loadEv \o <<"convert:" \o tcAfter>>,
              files |-> Put(fs, output, [codec |-> "wav", audio |-> "openvoice"])]
        ELSE [ret |-> <<NONE, "OpenVoice cloning failed: " \o ExcText>>,
              tc |-> tcAfter, events |-> loadEv \o <<"convert:" \o tcAfter \o ":raise">>,
              files |-> fs]

-----------------------------------------------------------------------------
(* The fetcher and the object store *)

\* download_file(url, local_path)
download_file(url, local_path, o, fs) ==
    IF o = "ok"
    THEN [ret |-> <<local_path, NONE>>,
          files |-> Put(fs, local_path, [codec |-> "wav", audio |-> "reference"])]
    ELSE [ret |-> <<NONE, "Download failed: " \o ExcText>>, files |-> fs]

S3Endpoint == "https://storage.runpod.io"
S3Bucket == "flowsmartly-avatars"

\* upload_to_s3(file_path, bucket_name, object_name)
upload_to_s3(file_path, bucket_name, object_name, o, fs) ==
    IF ~Truthy(env.RUNPOD_S3_ACCESS_KEY) \/ ~Truthy(env.RUNPOD_S3_SECRET_KEY)
    THEN [ret |-> <<NONE, "S3 credentials not configured">>,
          events |-> <<"upload:not_configured">>, put |-> {}]
    ELSE IF o = "ok" /\ file_path \in DOMAIN fs
    THEN LET url == S3Endpoint \o "/" \o bucket_name \o "/" \o object_name
         IN  [ret |-> <<url, NONE>>, events |-> <<"upload:ok">>,
              put |-> {[url |-> url, body |-> fs[file_path]]}]
    ELSE [ret |-> <<NONE, "S3 upload failed: " \o ExcText>>,
          events |-> <<"upload:raise">>, put |-> {}]

-----------------------------------------------------------------------------
(* handler(job): the decisions it takes *)

\* a check for None only, which lets the empty string through
MissingTextNoneOnly(t) == t = NONE

\* line 267: if not text
MissingText(t) == ~Truthy(t)

\* the download error is not looked at
DownloadFailedNever(error) == FALSE

\* line 288: if error (after download_file)
DownloadFailed(error) == Truthy(error)

\* a synthesis error that is not looked at
SynthesisFailedNever(error) == FALSE

\* line 302: if error (after generate_f5_tts)
SynthesisFailed(error) == Truthy(error)

\* an enhancement that does not ask for the staged reference
ShouldEnhanceWithoutReference(use_ov, ref_path) == use_ov

\* line 312: if use_openvoice and ref_audio_path
ShouldEnhance(use_ov, ref_path) == use_ov /\ Truthy(ref_path)

\* the enhancement's result is taken whether or not it failed
FinalAudioPathCloned(f5_output, cloned_path, error) == cloned_path

\* lines 311-326: the audio the later stages work on
FinalAudioPath(f5_output, cloned_path, error) ==
    IF Truthy(error) THEN f5_output ELSE cloned_path

\* the upload error is not looked at
UploadFailedNever(error) == FALSE

\* line 352: if error (after upload_to_s3)
UploadFailed(error) == Truthy(error)

\* an except clause that matches none of the exceptions raised
CatchesNothing(e) == FALSE

\* line 375: except Exception catches whatever a stage raises
Catches(e) == TRUE

\* a removal that removes nothing
RmtreeLeaves(o, exists) == exists

\* lines 369-373: the staging directory after shutil.rmtree(temp_dir), whose
\* failure is swallowed
Rmtree(o, exists) == IF o = "ok" THEN FALSE ELSE exists

\* a model name that follows the enhancement's outcome
SuccessPayloadByOutcome(audio_url) ==
    [audio_url |-> audio_url,
     status |-> "completed",
     model |-> "f5-tts" \o (IF \E n \in DOMAIN log : log[n] = "openvoice:ok"
                            THEN "+openvoice" ELSE ""),
     language |-> language,
     format |-> output_format,
     job_id |-> job_id]

\* lines 358-365
SuccessPayload(audio_url) ==
    [audio_url |-> audio_url,
     status |-> "completed",
     model |-> "f5-tts" \o (IF use_openvoice THEN "+openvoice" ELSE ""),
     language |-> language,
     format |-> output_format,
     job_id |-> job_id]

ErrorPayload(message) == [error |-> message]

-----------------------------------------------------------------------------
(* The worker process *)

HInit ==
    /\ pc = "startup"
    /\ job = NoJob
    /\ env \in Envs
    /\ f5_model = NONE
    /\ tone_converter = NONE
    /\ dirCreated = FALSE
    /\ dirExists = FALSE
    /\ files = NoFiles
    /\ ref_audio_path = NONE
    /\ audio = NONE
    /\ final_audio_path = NONE
    /\ output_file = NONE
    /\ uploaded = {}
    /\ retval = <<>>
    /\ exc = NONE
    /\ returned = <<>>
    /\ log = <<>>

\* lines 86-89: both engines are loaded when the module is imported
ModuleStartup ==
    /\ pc = "startup"
    /\ \E lo \in F5LoadOutcomes, oo \in OvLoadOutcomes :
        /\ f5_model' = initialize_f5_tts(lo, f5_model).f5
        /\ tone_converter' = initialize_openvoice(oo, tone_converter).tc
    /\ pc' = "idle"
    /\ UNCHANGED <<job, env, dirCreated, dirExists, files, ref_audio_path, audio,
                   final_audio_path, output_file, uploaded, retval, exc, returned,
                   log, rvars>>

\* the platform calls handler(job)
Invoke ==
    /\ pc = "idle"
    /\ job' \in Jobs
    /\ pc' = "validate"
    /\ UNCHANGED <<env, f5_model, tone_converter, dirCreated, dirExists, files,
                   ref_audio_path, audio, final_audio_path, output_file, uploaded,
                   retval, exc, returned, log, rvars>>

\* the caller has the result and handler's frame is gone; the worker waits for
\* the next job (the engines stay as they are)
Release ==
    /\ pc = "done"
    /\ pc' = "idle"
    /\ job' = NoJob
    /\ dirCreated' = FALSE
    /\ dirExists' = FALSE
    /\ files' = NoFiles
    /\ ref_audio_path' = NONE
    /\ audio' = NONE
    /\ final_audio_path' = NONE
    /\ output_file' = NONE
    /\ uploaded' = {}
    /\ retval' = <<>>
    /\ exc' = NONE
    /\ returned' = <<>>
    /\ log' = <<>>
    /\ UNCHANGED <<env, f5_model, tone_converter, rvars>>

\* lines 259-275
Validate ==
    /\ pc = "validate"
    /\ IF MissingText(text)
       THEN /\ returned' = <<ErrorPayload("text is required")>>
            /\ pc' = "done"
       ELSE /\ returned' = returned
            /\ pc' = "mkdtemp"
    /\ UNCHANGED <<job, env, f5_model, tone_converter, dirCreated, dirExists, files,
                   ref_audio_path, audio, final_audio_path, output_file, uploaded,
                   retval, exc, log, rvars>>

\* line 278: tempfile.mkdtemp, outside the inner try
Mkdtemp ==
    /\ pc = "mkdtemp"
    /\ \E o \in CallOutcomes :
        /\ log' = Append(log, "mkdtemp:" \o o)
        /\ dirCreated' = (o = "ok")
        /\ dirExists' = (o = "ok")
        /\ exc' = IF o = "ok" THEN NONE ELSE ExcText
        /\ pc' = IF o = "ok" THEN "download" ELSE "except"
    /\ UNCHANGED <<job, env, f5_model, tone_converter, files, ref_audio_path, audio,
                   final_audio_path, output_file, uploaded, retval, returned, rvars>>

\* lines 282-292
DownloadStage ==
    /\ pc = "download"
    /\ IF Truthy(voice_clone_url)
       THEN \E o \in CallOutcomes :
            LET d == download_file(voice_clone_url, "reference.wav", o, files)
            IN  /\ log' = Append(log, "download:" \o o)
                /\ files' = d.files
                /\ IF DownloadFailed(d.ret[2])
                   THEN /\ retval' = <<ErrorPayload(
                                "Failed to download voice sample: " \o d.ret[2])>>
                        /\ ref_audio_path' = "reference.wav"
                        /\ pc' = "finally"
                   ELSE /\ retval' = retval
                        /\ ref_audio_path' = d.ret[1]
                        /\ pc' = "synthesis"
       ELSE /\ ref_audio_path' = NONE
            /\ pc' = "synthesis"
            /\ UNCHANGED <<log, files, retval>>
    /\ UNCHANGED <<job, env, f5_model, tone_converter, dirCreated, dirExists, audio,
                   final_audio_path, output_file, uploaded, exc, returned, rvars>>

\* lines 294-304: the call of generate_f5_tts and the unpacking of what it returns
SynthesisStage ==
    /\ pc = "synthesis"
    /\ \E lo \in F5LoadOutcomes, io \in CallOutcomes :
        LET g == generate_f5_tts(ref_audio_path, voice_clone_text, f5_model, lo, io)
        IN  /\ f5_model' = g.f5
            /\ log' = log \o g.events
            /\ IF Len(g.ret) # 3
               THEN /\ exc' = "not enough values to unpack (expected 3, got 2)"
                    /\ pc' = "finally"
                    /\ UNCHANGED <<retval, audio>>
               ELSE IF SynthesisFailed(g.ret[3])
               THEN /\ retval' = <<ErrorPayload(g.ret[3])>>
                    /\ pc' = "finally"
                    /\ UNCHANGED <<exc, audio>>
               ELSE /\ audio' = g.ret[1]
                    /\ pc' = "save"
                    /\ UNCHANGED <<exc, retval>>
    /\ UNCHANGED <<job, env, tone_converter, dirCreated, dirExists, files,
                   ref_audio_path, final_audio_path, output_file, uploaded,
                   returned, rvars>>

\* lines 306-308: torchaudio.save
SaveStage ==
    /\ pc = "save"
    /\ \E o \in CallOutcomes :
        /\ log' = Append(log, "save:" \o o)
        /\ IF o = "ok"
           THEN /\ files' = Put(files, "f5_output.wav",
                                [codec |-> "wav", audio |-> audio])
                /\ pc' = "enhance"
                /\ exc' = exc
           ELSE /\ files' = files
                /\ pc' = "finally"
                /\ exc' = ExcText
    /\ UNCHANGED <<job, env, f5_model, tone_converter, dirCreated, dirExists,
                   ref_audio_path, audio, final_audio_path, output_file, uploaded,
                   retval, returned, rvars>>

\* lines 310-326
EnhancementStage ==
    /\ pc = "enhance"
    /\ IF ShouldEnhance(use_openvoice, ref_audio_path)
       THEN \E lo \in OvLoadOutcomes, co \in CallOutcomes :
            LET a == apply_openvoice_cloning("f5_output.wav", ref_audio_path,
                         "openvoice_output.wav", tone_converter, lo, co, files)
            IN  /\ tone_converter' = a.tc
                /\ files' = a.files
                /\ log' = log \o <<"openvoice">> \o a.events
                       \o <<IF Truthy(a.ret[2]) THEN "openvoice:error"
                                                ELSE "openvoice:ok">>
                /\ final_audio_path' =
                       FinalAudioPath("f5_output.wav", a.ret[1], a.ret[2])
       ELSE /\ final_audio_path' = "f5_output.wav"
            /\ UNCHANGED <<tone_converter, files, log>>
    /\ pc' = "transcode"
    /\ UNCHANGED <<job, env, f5_model, dirCreated, dirExists, ref_audio_path, audio,
                   output_file, uploaded, retval, exc, returned, rvars>>

\* lines 328-344: ffmpeg for mp3 (subprocess.run with check=True), a copy otherwise
TranscodeStage ==
    /\ pc = "transcode"
    /\ output_file' = "output." \o output_format
    /\ \E o \in CallOutcomes :
        LET tool == IF output_format = "mp3" THEN "ffmpeg" ELSE "copy"
            done == o = "ok" /\ final_audio_path \in DOMAIN files
        IN  /\ log' = log \o <<tool \o ":" \o (IF done THEN "ok" ELSE "raise"),
                               "input:" \o final_audio_path>>
            /\ IF done
               THEN /\ files' = Put(files, "output." \o output_format,
                           [codec |-> IF output_format = "mp3" THEN "mp3"
                                      ELSE files[final_audio_path].codec,
                            audio |-> files[final_audio_path].audio])
                    /\ pc' = "upload"
                    /\ exc' = exc
               ELSE /\ files' = files
                    /\ pc' = "finally"
                    /\ exc' = ExcText
    /\ UNCHANGED <<job, env, f5_model, tone_converter, dirCreated, dirExists,
                   ref_audio_path, audio, final_audio_path, uploaded, retval,
                   returned, rvars>>

\* lines 346-365
UploadStage ==
    /\ pc = "upload"
    /\ \E o \in CallOutcomes :
        LET u == upload_to_s3(output_file, S3Bucket,
                     "tts/" \o job_id \o "." \o output_format, o, files)
        IN  /\ log' = log \o u.events
            /\ uploaded' = u.put
            /\ retval' = IF UploadFailed(u.ret[2])
                         THEN <<ErrorPayload(u.ret[2])>>
                         ELSE <<SuccessPayload(u.ret[1])>>
    /\ pc' = "finally"
    /\ UNCHANGED <<job, env, f5_model, tone_converter, dirCreated, dirExists, files,
                   ref_audio_path, audio, final_audio_path, output_file, exc,
                   returned, rvars>>

\* lines 367-373: the finally clause, then the pending return or exception
Finally ==
    /\ pc = "finally"
    /\ \E o \in CallOutcomes :
        /\ log' = Append(log, "rmtree:" \o o)
        /\ dirExists' = Rmtree(o, dirExists)
        /\ files' = IF o = "ok" THEN NoFiles ELSE files
    /\ IF exc # NONE
       THEN /\ pc' = "except"
            /\ UNCHANGED <<retval, returned>>
       ELSE /\ returned' = retval
            /\ retval' = <<>>
            /\ pc' = "done"
    /\ UNCHANGED <<job, env, f5_model, tone_converter, dirCreated, ref_audio_path,
                   audio, final_audio_path, output_file, uploaded, exc, rvars>>

\* lines 375-379
OuterExcept ==
    /\ pc = "except"
    /\ IF Catches(exc)
       THEN /\ returned' = <<ErrorPayload("Handler error: " \o exc)>>
            /\ exc' = NONE
       ELSE UNCHANGED <<returned, exc>>
    /\ pc' = "done"
    /\ UNCHANGED <<job, env, f5_model, tone_converter, dirCreated, dirExists, files,
                   ref_audio_path, audio, final_audio_path, output_file, uploaded,
                   retval, log, rvars>>

HNext ==
    \/ ModuleStartup
    \/ Invoke
    \/ Validate
    \/ Mkdtemp
    \/ DownloadStage
    \/ SynthesisStage
    \/ SaveStage
    \/ EnhancementStage
    \/ TranscodeStage
    \/ UploadStage
    \/ Finally
    \/ OuterExcept
    \/ Release

-----------------------------------------------------------------------------
(* VoiceManager: the catalog and its backing document *)

\* how many VoiceManager objects share the storage directory
NumManagers == 2
Instances == 1..NumManagers

EmptyCatalog == [k \in {} |-> NONE]

\* Field values are written as Python writes them (repr), strings bare. JSON has
\* arrays only: json.dump writes a tuple as an array, which json.load reads back
\* as a list.
TupleAsList(v) ==
    CASE v = "('a', 'b')" -> "['a', 'b']"
      [] OTHER -> v

\* the value json.load gives back for a value json.dump wrote
JsonValue(v) == TupleAsList(v)

\* json.dump(self.profiles, f): the object's members, one per key
JsonDump(profiles) ==
    {<<k, [f \in DOMAIN profiles[k] |-> JsonValue(profiles[k][f])]>> :
        k \in DOMAIN profiles}

\* json.load(f)
JsonLoad(doc) ==
    [k \in {m[1] : m \in doc} |-> (CHOOSE m \in doc : m[1] = k)[2]]

NoDisk == [exists |-> FALSE, doc |-> {}]

\* _load_profiles
load_profiles(d) == IF d.exists THEN JsonLoad(d.doc) ELSE EmptyCatalog

\* _save_profiles: the whole document is rewritten
save_profiles(profiles) == [exists |-> TRUE, doc |-> JsonDump(profiles)]

\* line 58: f"{user_id}_{profile_name}_{len(self.profiles)}"
ProfileId(user_id, profile_name, profiles) ==
    user_id \o "_" \o profile_name \o "_" \o ToString(Cardinality(DOMAIN profiles))

\* line 68: Path.ctime(self.profiles_file). pathlib.Path has no attribute ctime:
\* evaluating it raises AttributeError
Path_ctime ==
    [raised |-> "type object 'Path' has no attribute 'ctime'", value |-> NONE]

\* lines 60-69
NewProfile(profile_id, user_id, profile_name, voice_sample_url, transcript, lang, metadata, created_at) ==
    [id |-> profile_id,
     user_id |-> user_id,
     name |-> profile_name,
     voice_sample_url |-> voice_sample_url,
     transcript |-> transcript,
     language |-> lang,
     metadata |-> IF metadata = NONE THEN "{}" ELSE metadata,
     created_at |-> created_at]

\* create_profile: what it raises or returns, the catalog afterwards and whether
\* _save_profiles was reached
create_profile(profiles, user_id, profile_name, voice_sample_url, transcript, lang, metadata) ==
    LET profile_id == ProfileId(user_id, profile_name, profiles)
        ct == Path_ctime
        profile == NewProfile(profile_id, user_id, profile_name, voice_sample_url,
                              transcript, lang, metadata, ct.value)
    IN  IF ct.raised # NONE
        THEN [raised |-> ct.raised, ret |-> <<>>, profiles |-> profiles,
              save |-> FALSE, id |-> profile_id]
        ELSE [raised |-> NONE, ret |-> <<profile>>,
              profiles |-> Put(profiles, profile_id, profile),
              save |-> TRUE, id |-> profile_id]

\* a delete that rewrites the document whether or not the id was found
delete_profileAlwaysSaves(profiles, profile_id) ==
    [ret |-> profile_id \in DOMAIN profiles,
     profiles |-> [k \in DOMAIN profiles \ {profile_id} |-> profiles[k]],
     save |-> TRUE]

\* delete_profile
delete_profile(profiles, profile_id) ==
    IF profile_id \in DOMAIN profiles
    THEN [ret |-> TRUE,
          profiles |-> [k \in DOMAIN profiles \ {profile_id} |-> profiles[k]],
          save |-> TRUE]
    ELSE [ret |-> FALSE, profiles |-> profiles, save |-> FALSE]

\* an update that replaces the profile by the given fields
DictUpdateReplaces(d, updates) == updates

\* dict.update(updates)
DictUpdate(d, updates) ==
    [f \in DOMAIN d \cup DOMAIN updates |->
        IF f \in DOMAIN updates THEN updates[f] ELSE d[f]]

\* an update that is not written to the document
update_profileUnsaved(profiles, profile_id, updates) ==
    IF profile_id \in DOMAIN profiles
    THEN LET merged == DictUpdate(profiles[profile_id], updates)
         IN  [ret |-> <<merged>>,
              profiles |-> Put(profiles, profile_id, merged),
              save |-> FALSE]
    ELSE [ret |-> <<>>, profiles |-> profiles, save |-> FALSE]

\* update_profile
update_profile(profiles, profile_id, updates) ==
    IF profile_id \in DOMAIN profiles
    THEN LET merged == DictUpdate(profiles[profile_id], updates)
         IN  [ret |-> <<merged>>,
              profiles |-> Put(profiles, profile_id, merged),
              save |-> TRUE]
    ELSE [ret |-> <<>>, profiles |-> profiles, save |-> FALSE]

-----------------------------------------------------------------------------
(* The documents, ids and arguments the model draws from *)

SeedProfile(user_id, profile_name, n) ==
    NewProfile(user_id \o "_" \o profile_name \o "_" \o ToString(n), user_id,
               profile_name, "https://v/x.wav", "transcript", "en", NONE, "t0")

SeedCatalogs ==
    {EmptyCatalog,
     Put(EmptyCatalog, "u1_v_0", SeedProfile("u1", "v", 0)),
     Put(Put(EmptyCatalog, "u1_v_0", SeedProfile("u1", "v", 0)),
         "u1_w_1", SeedProfile("u1", "w", 1))}

SeedDisks == {NoDisk} \cup {save_profiles(c) : c \in SeedCatalogs}

UserIds == {"u1"}
ProfileNames == {"v", "w"}
ProfileIds == {"u1_v_0", "u1_w_1", "u1_w_0"}
Updates == {[language |-> "fr"], [transcript |-> "t2"]}
\* with a keyword the profile does not have yet, whose value is a tuple
SoloUpdates == Updates \cup {[tags |-> "('a', 'b')"]}
NoUpdates == [f \in {} |-> NONE]

NoOp ==
    [name |-> "", inst |-> 0, id |-> NONE, user |-> NONE, pname |-> NONE,
     nbefore |-> 0, ok |-> FALSE, profile |-> <<>>, raised |-> NONE,
     updates |-> NoUpdates]

NoWriter == [k \in {} |-> 0]

\* the entries of the document whose value a mutation of some instance persisted:
\* after instance i saved catalog p with target t over document d
WriterAfter(i, t, p, d) ==
    LET old == load_profiles(d)
    IN  [k \in {x \in DOMAIN p :
                    \/ x = t
                    \/ x \in DOMAIN writer /\ x \in DOMAIN old /\ old[x] = p[x]}
            |-> IF k = t THEN i ELSE writer[k]]

-----------------------------------------------------------------------------
(* The registry's operations *)

RInit ==
    /\ disk \in SeedDisks
    /\ mgr = [i \in Instances |-> [up |-> FALSE, profiles |-> EmptyCatalog]]
    /\ op = NoOp
    /\ writer = NoWriter

\* lines 15-21: VoiceManager(storage_dir)
Construct(i) ==
    /\ mgr' = [mgr EXCEPT ![i] = [up |-> TRUE, profiles |-> load_profiles(disk)]]
    /\ op' = [NoOp EXCEPT !.name = "__init__", !.inst = i]
    /\ UNCHANGED <<disk, writer, hvars>>

\* lines 35-74
CreateProfile(i, user_id, profile_name) ==
    /\ mgr[i].up
    /\ LET c == create_profile(mgr[i].profiles, user_id, profile_name,
                               "https://v/x.wav", "transcript", "en", NONE)
       IN  /\ mgr' = [mgr EXCEPT ![i].profiles = c.profiles]
           /\ disk' = IF c.save THEN save_profiles(c.profiles) ELSE disk
           /\ writer' = IF c.save
                        THEN WriterAfter(i, c.id, c.profiles, disk)
                        ELSE writer
           /\ op' = [name |-> "create_profile", inst |-> i, id |-> c.id,
                     user |-> user_id, pname |-> profile_name,
                     nbefore |-> Cardinality(DOMAIN mgr[i].profiles),
                     ok |-> c.raised = NONE, profile |-> c.ret,
                     raised |-> c.raised, updates |-> NoUpdates]
    /\ UNCHANGED hvars

\* lines 87-93
DeleteProfile(i, profile_id) ==
    /\ mgr[i].up
    /\ LET d == delete_profile(mgr[i].profiles, profile_id)
       IN  /\ mgr' = [mgr EXCEPT ![i].profiles = d.profiles]
           /\ disk' = IF d.save THEN save_profiles(d.profiles) ELSE disk
           /\ writer' = IF d.save
                        THEN WriterAfter(i, profile_id, d.profiles, disk)
                        ELSE writer
           /\ op' = [NoOp EXCEPT !.name = "delete_profile", !.inst = i,
                                 !.id = profile_id,
                                 !.nbefore = Cardinality(DOMAIN mgr[i].profiles),
                                 !.ok = d.ret]
    /\ UNCHANGED hvars

\* lines 95-101
UpdateProfile(i, profile_id, updates) ==
    /\ mgr[i].up
    /\ LET u == update_profile(mgr[i].profiles, profile_id, updates)
       IN  /\ mgr' = [mgr EXCEPT ![i].profiles = u.profiles]
           /\ disk' = IF u.save THEN save_profiles(u.profiles) ELSE disk
           /\ writer' = IF u.save
                        THEN WriterAfter(i, profile_id, u.profiles, disk)
                        ELSE writer
           /\ op' = [NoOp EXCEPT !.name = "update_profile", !.inst = i,
                                 !.id = profile_id,
                                 !.nbefore = Cardinality(DOMAIN mgr[i].profiles),
                                 !.ok = u.save,
                                 !.profile = u.ret,
                                 !.updates = updates]
    /\ UNCHANGED hvars

RNext ==
    \E i \in Instances :
        \/ Construct(i)
        \/ \E u \in UserIds, n \in ProfileNames : CreateProfile(i, u, n)
        \/ \E id \in ProfileIds : DeleteProfile(i, id)
        \/ \E id \in ProfileIds, upd \in Updates : UpdateProfile(i, id, upd)

-----------------------------------------------------------------------------
(* The specifications *)

\* the registry at rest while the worker runs
RIdle ==
    /\ disk = NoDisk
    /\ mgr = [i \in Instances |-> [up |-> FALSE, profiles |-> EmptyCatalog]]
    /\ op = NoOp
    /\ writer = NoWriter

\* the worker before its module is imported, while the registry runs
HIdle ==
    /\ HInit
    /\ env = [RUNPOD_S3_ACCESS_KEY |-> NONE, RUNPOD_S3_SECRET_KEY |-> NONE]

Init == HInit /\ RIdle

Next == HNext

\* the worker: jobs are handled one after the other
Spec == Init /\ [][Next]_vars

\* the registry: instances sharing one storage directory
RegInit == HIdle /\ RInit

RegSpec == RegInit /\ [][RNext]_vars

\* one instance that writes, and an instance constructed later on the same
\* storage directory that only reads what it loaded
Writer == 1
Reader == 2

SoloNext ==
    \/ Construct(Writer)
    \/ mgr[Writer].up /\ Construct(Reader)
    \/ \E u \in UserIds, n \in ProfileNames : CreateProfile(Writer, u, n)
    \/ \E id \in ProfileIds : DeleteProfile(Writer, id)
    \/ \E id \in ProfileIds, upd \in SoloUpdates : UpdateProfile(Writer, id, upd)

SoloSpec == RegInit /\ [][SoloNext]_vars

-----------------------------------------------------------------------------
(* What the claims speak of *)

\* the job made the external call e
Has(e) == \E n \in DOMAIN log : log[n] = e

\* how many times the job made one of the calls of E
Count(E) == Cardinality({n \in DOMAIN log : log[n] \in E})

RmtreeEvents == {"rmtree:ok", "rmtree:raise"}
SynthesisEvents ==
    {"f5_load:ok", "f5_load:fail", "infer:clone", "infer:default",
     "infer:clone:raise", "infer:default:raise"}
UploadEvents == {"upload:ok", "upload:raise", "upload:not_configured"}

\* the success payload of lines 358-365
IsSuccess(r) ==
    /\ DOMAIN r = {"audio_url", "status", "model", "language", "format", "job_id"}
    /\ r.status = "completed"
    /\ Truthy(r.audio_url)

\* the failure payload
IsFailure(r) ==
    /\ DOMAIN r = {"error"}
    /\ Truthy(r.error)

\* the catalog held by the backing document
OnDisk(d) == load_profiles(d)

-----------------------------------------------------------------------------
(* Claims about handler *)

C2_TranscodeFailureFallsBackToWav ==
    (pc = "done" /\ Has("ffmpeg:raise")) =>
        /\ Count(UploadEvents) = 1
        /\ Has("upload:ok") =>
            /\ IsSuccess(returned[1])
            /\ \A o \in uploaded : o.body.codec = "wav"

\* C3: when apply_openvoice_cloning returns an error, the audio handler goes on
\* with is f5_output.wav; if transcoding and upload then succeed, handler returns
\* status "completed" and what it transcoded and published is the synthesis
\* output, not the enhancement output.
C3_EnhancementFailureKeepsSynthesisOutput ==
    /\ (Has("openvoice:error") /\ pc \in {"transcode", "upload", "finally", "done"})
           => final_audio_path = "f5_output.wav"
    /\ (pc = "done" /\ Has("openvoice:error") /\ Has("upload:ok")) =>
        /\ Len(returned) = 1
        /\ IsSuccess(returned[1])
        /\ Has("input:f5_output.wav")
        /\ uploaded # {}
        /\ \A o \in uploaded : o.body.audio = audio /\ o.body.audio # "openvoice"

\* C3 witness: the enhancement failed and the job completed
C3_Witness ==
    /\ pc = "done"
    /\ Has("openvoice:error")
    /\ Has("upload:ok")
    /\ Len(returned) = 1
    /\ "status" \in DOMAIN returned[1]

\* C4: a job without text (absent or empty) makes no external call and creates no
\* staging directory, and handler returns the validation error for it.
C4_MissingTextHasNoSideEffect ==
    (pc # "idle" /\ pc # "startup" /\ ~Truthy(job.text)) =>
        /\ pc \in {"validate", "done"}
        /\ log = <<>>
        /\ ~dirCreated
        /\ ~dirExists
        /\ files = NoFiles
        /\ uploaded = {}
        /\ pc = "done" => returned = <<ErrorPayload("text is required")>>

\* C4 witness: handler returned for a job whose text is the empty string
C4_Witness ==
    /\ pc = "done"
    /\ job.text = ""
    /\ returned = <<ErrorPayload("text is required")>>

\* C5: when the download of voice_clone_url fails, neither synthesis (nor the
\* loading of its engine) nor upload is attempted, and handler returns an error
\* whose message reports the download failure.
C5_DownloadFailureAborts ==
    Has("download:raise") =>
        /\ Truthy(voice_clone_url)
        /\ Count(SynthesisEvents) = 0
        /\ Count(UploadEvents) = 0
        /\ uploaded = {}
        /\ pc \in {"finally", "done"}
        /\ pc = "done" => returned = <<ErrorPayload(
               "Failed to download voice sample: Download failed: " \o ExcText)>>

\* C5 witness: handler returned after a failed download
C5_Witness ==
    /\ pc = "done"
    /\ Has("download:raise")
    /\ Len(returned) = 1

\* C6: handler returns exactly one result, the success payload or the failure
\* payload and never both nor neither, and no exception is left in flight when it
\* returns, whatever the stages did.
C6_ExactlyOneWellFormedResult ==
    /\ pc # "done" => returned = <<>>
    /\ pc = "done" =>
        /\ Len(returned) = 1
        /\ exc = NONE
        /\ IsSuccess(returned[1]) # IsFailure(returned[1])

\* C6 witness: mkdtemp raised, and handler returned the failure payload
C6_Witness ==
    /\ pc = "done"
    /\ Has("mkdtemp:raise")
    /\ returned = <<ErrorPayload("Handler error: " \o ExcText)>>

\* C7: when the upload fails (keys not configured, or the transfer fails) handler
\* returns an error result; it returns status "completed" only if upload_to_s3
\* returned a URL, which is then the audio_url of the payload.
C7_UploadFailureIsAnError ==
    pc = "done" =>
        /\ (Has("upload:not_configured") \/ Has("upload:raise")) =>
            /\ Len(returned) = 1
            /\ IsFailure(returned[1])
            /\ uploaded = {}
        /\ (Len(returned) = 1 /\ "status" \in DOMAIN returned[1]) =>
            /\ Has("upload:ok")
            /\ \E o \in uploaded : o.url = returned[1].audio_url

\* C7 witness: the keys are not configured and handler returned that error
C7_Witness ==
    /\ pc = "done"
    /\ Has("upload:not_configured")
    /\ returned = <<ErrorPayload("S3 credentials not configured")>>

-----------------------------------------------------------------------------
(* Claims about VoiceManager *)

\* C8: every create_profile call, whatever it is interleaved with on this or on
\* another instance of the same storage path, returns a profile under an id that
\* the backing document did not hold, and the document afterwards holds that
\* profile and every entry it held before.
C8_CreatesNeverOverwrite ==
    [][op'.name = "create_profile" =>
          /\ op'.ok
          /\ Len(op'.profile) = 1
          /\ op'.id \notin DOMAIN OnDisk(disk)
          /\ op'.id \in DOMAIN OnDisk(disk')
          /\ OnDisk(disk')[op'.id] = op'.profile[1]
          /\ \A k \in DOMAIN OnDisk(disk) :
                k \in DOMAIN OnDisk(disk') /\ OnDisk(disk')[k] = OnDisk(disk)[k]]_vars

\* C9: a create, update or delete by one instance leaves in profiles.json, as it
\* was, every entry that a mutation of another instance persisted, other than the
\* entry the call is about.
C9_NoLostUpdates ==
    [][\A k \in DOMAIN writer :
          (writer[k] # op'.inst /\ k # op'.id) =>
              /\ k \in DOMAIN OnDisk(disk')
              /\ OnDisk(disk')[k] = OnDisk(disk)[k]]_vars

\* C10: a create_profile call returns the id userId_name_N, N being the number of
\* profiles in the catalog at the time of the call, and the catalog then holds
\* the new profile under that id (replacing an entry that had it).
C10_CreateReturnsCountBasedId ==
    op.name = "create_profile" =>
        /\ op.ok
        /\ Len(op.profile) = 1
        /\ op.profile[1].id = op.user \o "_" \o op.pname \o "_" \o ToString(op.nbefore)
        /\ op.profile[1].id \in DOMAIN mgr[op.inst].profiles
        /\ mgr[op.inst].profiles[op.profile[1].id] = op.profile[1]

\* C11: delete_profile with an id that is not in the instance's catalog returns
\* False and leaves the in-memory catalogs and the backing document as they were,
\* so that the same call made again returns False and changes nothing again.
C11_DeleteAbsentIsNoOp ==
    [][(op'.name = "delete_profile" /\ op'.id \notin DOMAIN mgr[op'.inst].profiles) =>
          /\ ~op'.ok
          /\ mgr' = mgr
          /\ disk' = disk
          /\ delete_profile(mgr'[op'.inst].profiles, op'.id) =
                 [ret |-> FALSE, profiles |-> mgr[op'.inst].profiles, save |-> FALSE]]_vars

\* C11 witness: delete_profile returned False on an instance whose catalog holds
\* other profiles, with the document present
C11_Witness ==
    /\ op.name = "delete_profile"
    /\ ~op.ok
    /\ op.id \notin DOMAIN mgr[op.inst].profiles
    /\ DOMAIN mgr[op.inst].profiles # {}
    /\ disk.exists

-----------------------------------------------------------------------------
(* Claims about the engines *)

F5LoadEvents == {"f5_load:ok", "f5_load:fail"}
OvLoadEvents == {"ov_load:ok", "ov_load:fail_ctor", "ov_load:fail_ckpt"}
InferEvents ==
    {"infer:clone", "infer:default", "infer:clone:raise", "infer:default:raise"}

\* C12: a loaded synthesis engine stays loaded and a call of generate_f5_tts
\* then makes no load attempt; while the engine is not loaded (never loaded, or
\* every attempt so far failed) each call of generate_f5_tts first makes a load
\* attempt, and synthesizes only after an attempt that succeeded.
C12_F5LoadIsLazyWithRetry ==
    [][/\ f5_model = "loaded" => f5_model' = "loaded"
       /\ (pc = "synthesis" /\ pc' # "synthesis") =>
            /\ f5_model = "loaded" =>
                  \A n \in DOMAIN log' : log'[n] \notin F5LoadEvents
            /\ f5_model # "loaded" =>
                  /\ Len(log') > Len(log)
                  /\ log'[Len(log) + 1] \in F5LoadEvents
                  /\ Len(log') > Len(log) + 1 =>
                        /\ log'[Len(log) + 1] = "f5_load:ok"
                        /\ f5_model' = "loaded"]_vars

\* C12 witness: the engine was not loaded at startup, the job's call loaded it
\* and synthesized
C12_Witness ==
    /\ pc = "done"
    /\ Has("f5_load:ok")
    /\ Has("infer:default")
    /\ f5_model = "loaded"

\* C13: a call of apply_openvoice_cloning that finds the voice-color engine not
\* loaded (never loaded, or a load that failed in the constructor or in
\* load_ckpt) first makes a load attempt, and no conversion is made with a
\* converter whose load did not complete.
C13_OpenVoiceLoadIsLazyWithRetry ==
    [][(pc = "enhance" /\ Len(log') > Len(log)) =>
          /\ tone_converter # "loaded" => log'[Len(log) + 2] \in OvLoadEvents
          /\ \A n \in DOMAIN log' :
                log'[n] \notin {"convert:constructed", "convert:constructed:raise"}]_vars

\* C14: a job that reached the synthesis stage was synthesized in voice-cloning
\* mode exactly when the job gives a voice_clone_url, and in default-voice mode
\* exactly when it gives none.
C14_CloningIffReferenceUrl ==
    /\ (Has("infer:clone") \/ Has("infer:clone:raise")) => Truthy(voice_clone_url)
    /\ (Has("infer:default") \/ Has("infer:default:raise")) => ~Truthy(voice_clone_url)

\* C17: a job whose load attempt inside generate_f5_tts failed ends with the
\* error result "F5-TTS model not available", without save, enhancement,
\* transcoding or upload.
C17_LoadFailureReportsAdapterMessage ==
    (pc = "done" /\ Has("f5_load:fail")) =>
        /\ returned = <<ErrorPayload("F5-TTS model not available")>>
        /\ ~Has("save:ok") /\ ~Has("save:raise")
        /\ ~Has("openvoice")
        /\ ~Has("ffmpeg:ok") /\ ~Has("ffmpeg:raise")
        /\ ~Has("copy:ok") /\ ~Has("copy:raise")
        /\ \A e \in UploadEvents : ~Has(e)

-----------------------------------------------------------------------------
(* Claims about the stages of a job *)

PastEnhancement == {"transcode", "upload", "finally", "except", "done"}
OvEvents ==
    OvLoadEvents \cup {"openvoice", "openvoice:ok", "openvoice:error",
                       "convert:loaded", "convert:loaded:raise",
                       "convert:constructed", "convert:constructed:raise"}

\* C18: a job calls apply_openvoice_cloning exactly when it asks for
\* use_openvoice, its reference sample was downloaded and its synthesis output
\* was saved; a job that does not call it leaves the voice-color engine as it
\* found it and makes no load attempt.
C18_EnhancementIffRequestedAndStaged ==
    [][/\ pc' \in PastEnhancement =>
            (Has("openvoice")' <=>
                (use_openvoice' /\ Has("download:ok")' /\ Has("save:ok")'))
       /\ (\E e \in OvEvents : Has(e)') => Has("openvoice")'
       /\ (tone_converter' # tone_converter /\ pc # "startup") =>
            (pc = "enhance" /\ Has("openvoice")')]_vars

\* C18 witness: a job that asked for use_openvoice without a staged reference
\* went past the enhancement stage without calling it
C18_Witness ==
    /\ pc = "done"
    /\ use_openvoice
    /\ Has("save:ok")
    /\ ~Has("download:ok")
    /\ ~Has("openvoice")

DownloadEvents == {"download:ok", "download:raise"}
SaveEvents == {"save:ok", "save:raise"}
TranscodeEvents == {"ffmpeg:ok", "ffmpeg:raise", "copy:ok", "copy:raise"}
TranscodeInputs == {"input:f5_output.wav", "input:openvoice_output.wav"}

\* the place of an event in the order of the stages
StageRank(e) ==
    CASE e \in {"mkdtemp:ok", "mkdtemp:raise"} -> 0
      [] e \in DownloadEvents -> 1
      [] e \in F5LoadEvents \cup InferEvents \cup SaveEvents -> 2
      [] e \in OvEvents -> 3
      [] e \in TranscodeEvents \cup TranscodeInputs -> 4
      [] e \in UploadEvents -> 5
      [] e \in RmtreeEvents -> 6

\* C19: the stages of a job run in the order download, synthesis, enhancement,
\* transcoding, upload, cleanup, each at most once; an upload is attempted only
\* after a synthesis that succeeded and a transcoding that completed; the
\* removal of the staging directory comes after every other stage of the job.
C19_StagesRunInOrderAtMostOnce ==
    /\ \A m, n \in DOMAIN log : m < n => StageRank(log[m]) <= StageRank(log[n])
    /\ Count(DownloadEvents) <= 1
    /\ Count(InferEvents) <= 1
    /\ Count(SaveEvents) <= 1
    /\ Count({"openvoice"}) <= 1
    /\ Count(TranscodeEvents) <= 1
    /\ Count(UploadEvents) <= 1
    /\ Count(RmtreeEvents) <= 1
    /\ (\E e \in UploadEvents : Has(e)) =>
          /\ Has("infer:clone") \/ Has("infer:default")
          /\ Has("save:ok")
          /\ Has("ffmpeg:ok") \/ Has("copy:ok")
    /\ (\E e \in RmtreeEvents : Has(e)) => log[Len(log)] \in RmtreeEvents

\* C19 witness: a finished job that ran every stage
C19_Witness ==
    /\ pc = "done"
    /\ Has("download:ok")
    /\ Has("infer:clone")
    /\ Has("openvoice")
    /\ Has("copy:ok")
    /\ Has("upload:ok")
    /\ Has("rmtree:ok")

\* C20: the model of a success payload is "f5-tts+openvoice" when the job asked
\* for use_openvoice and "f5-tts" when it did not, whether the enhancement was
\* skipped, failed or succeeded.
C20_ModelNameFollowsRequest ==
    (pc = "done" /\ Len(returned) = 1 /\ IsSuccess(returned[1])) =>
        returned[1].model =
            (IF job.use_openvoice THEN "f5-tts+openvoice" ELSE "f5-tts")

\* C20 witness: a success that reports "+openvoice" although the enhancement failed
C20_Witness ==
    /\ pc = "done"
    /\ Len(returned) = 1
    /\ IsSuccess(returned[1])
    /\ returned[1].model = "f5-tts+openvoice"
    /\ Has("openvoice:error")

-----------------------------------------------------------------------------
(* Claims about one VoiceManager *)

\* what a VoiceManager constructed now would start with
Reloaded == load_profiles(disk)

AllNative(profiles) ==
    \A k \in DOMAIN profiles : \A f \in DOMAIN profiles[k] :
        JsonValue(profiles[k][f]) = profiles[k][f]

\* C15 as stated: with one instance and no other writer, the document read back
\* is the instance's in-memory catalog, and an instance constructed later starts
\* with that catalog.
C15_DocumentHoldsCatalog ==
    /\ mgr[Writer].up => Reloaded = mgr[Writer].profiles
    /\ (op.name = "__init__" /\ op.inst = Reader) =>
          mgr[Reader].profiles = mgr[Writer].profiles

\* C15 amended: with one instance and no other writer, the document holds the
\* JSON encoding of the instance's in-memory catalog; an instance constructed
\* later starts with the catalog as JSON reads it back, which is the writer's
\* catalog itself whenever every value of it is one JSON reads back unchanged.
C15_DocumentHoldsEncodedCatalog ==
    /\ mgr[Writer].up =>
          /\ Reloaded = JsonLoad(JsonDump(mgr[Writer].profiles))
          /\ AllNative(mgr[Writer].profiles) => Reloaded = mgr[Writer].profiles
    /\ (op.name = "__init__" /\ op.inst = Reader) =>
          /\ mgr[Reader].profiles = JsonLoad(JsonDump(mgr[Writer].profiles))
          /\ AllNative(mgr[Writer].profiles) =>
                mgr[Reader].profiles = mgr[Writer].profiles

\* C15 witness: an instance constructed after the writer's update and delete
\* starts with the writer's catalog
C15_Witness ==
    /\ op.name = "__init__"
    /\ op.inst = Reader
    /\ DOMAIN mgr[Reader].profiles = {"u1_w_1"}
    /\ mgr[Reader].profiles["u1_w_1"].language = "fr"
    /\ mgr[Reader].profiles = mgr[Writer].profiles
    /\ writer = [k \in {"u1_w_1"} |-> Writer]

\* C16: update_profile with an id the catalog does not have returns nothing and
\* changes neither the catalog nor the document; with an id it has, the profile
\* returned has the given fields at the given values and every other field as
\* before, it is the catalog's entry for the id, and the catalog's keys and its
\* other profiles are as before.
C16_UpdateMergesGivenFields ==
    [][op'.name = "update_profile" =>
         LET old == mgr[op'.inst].profiles
             new == mgr'[op'.inst].profiles
             id == op'.id
         IN  IF id \notin DOMAIN old
             THEN /\ op'.profile = <<>>
                  /\ mgr' = mgr
                  /\ disk' = disk
             ELSE /\ Len(op'.profile) = 1
                  /\ DOMAIN op'.profile[1] = DOMAIN old[id] \cup DOMAIN op'.updates
                  /\ \A f \in DOMAIN op'.updates :
                        op'.profile[1][f] = op'.updates[f]
                  /\ \A f \in DOMAIN old[id] \ DOMAIN op'.updates :
                        op'.profile[1][f] = old[id][f]
                  /\ DOMAIN new = DOMAIN old
                  /\ new[id] = op'.profile[1]
                  /\ \A k \in DOMAIN old \ {id} : new[k] = old[k]]_vars

\* C16 witness: an update of one of two profiles that overwrote a field and kept
\* a field an earlier update had added
C16_Witness ==
    /\ op.name = "update_profile"
    /\ op.ok
    /\ op.updates = [language |-> "fr"]
    /\ Cardinality(DOMAIN mgr[Writer].profiles) = 2
    /\ "tags" \in DOMAIN op.profile[1]
    /\ op.profile[1].language = "fr"

====
